---- MODULE Spec2Model ----
(***************************************************************************)
(* Model of neuralmonkey/decoders/encoder_projection.py and                *)
(* neuralmonkey/decoders/output_projection.py.                             *)
(*                                                                         *)
(* A tensor is a record with its static shape and a symbolic description   *)
(* of how it was computed.  A 2-D input tensor carries one label per       *)
(* feature column, so that concatenation order is observable.  The         *)
(* variable store of the computation graph ("graph") is the set of         *)
(* trainable variables created so far, the reuse flag of the enclosing     *)
(* variable scope and the number of default-named "dense" scopes opened    *)
(* in it.  One variable scope serves one configuration slot of a decoder   *)
(* ("role"): its encoder projection or its output projection; the two      *)
(* families exchange no data.                                              *)
(***************************************************************************)
EXTENDS Integers, Sequences, FiniteSets, TLC

VARIABLES role, graph, enc_func, out_proj, last

vars == <<role, graph, enc_func, out_proj, last>>

\* ------------------------------------------------------------------ bounds
MaxWidth == 2
MaxBatch == 2
MaxSize == 2
MaxTensors == 2
MaxLayers == 2
MaxScopes == 2

\* ------------------------------------------------------- Optional[...] values
None == <<>>
Some(x) == <<x>>
IsNone(o) == Len(o) = 0
Get(o) == o[1]

\* ------------------------------------------------------------------ tensors
RECURSIVE SumWidths(_)
SumWidths(ts) ==
    IF Len(ts) = 0 THEN 0 ELSE Head(ts).shape[2] + SumWidths(Tail(ts))

RECURSIVE JoinCols(_)
JoinCols(ts) ==
    IF Len(ts) = 0 THEN <<>> ELSE Head(ts).cols \o JoinCols(Tail(ts))

\* A 2-D (batch x feature) tensor produced outside this code.
Placeholder(kind, i, b, w) ==
    [shape |-> <<b, w>>, cols |-> [j \in 1..w |-> <<kind, i, j>>]]

\* Faulty variant: the concatenation runs along the batch axis.
Concat0(ts) ==
    [shape |-> <<Len(ts) * Head(ts).shape[1], Head(ts).shape[2]>>,
     cols |-> Head(ts).cols]

\* tf.concat(values, 1)
Concat1(ts) ==
    [shape |-> <<Head(ts).shape[1], SumWidths(ts)>>, cols |-> JoinCols(ts)]

\* tf.zeros([n])
Zeros(n) == [shape |-> <<n>>, elems |-> [j \in 1..n |-> 0]]

\* neuralmonkey.nn.utils.dropout(variable, keep_prob, train_mode)
Dropout(x, keep_prob, train_mode) ==
    [shape |-> x.shape, op |-> "dropout", keep_prob |-> keep_prob,
     gate |-> train_mode, input |-> x]

\* ------------------------------------------------------ the variable store
VarsOf(scope) == {[scope |-> scope, var |-> v] : v \in {"kernel", "bias"}}

\* Outcome of a call: a returned value or a raised exception, with the
\* variable store as the call leaves it.
Return(v, g) == [status |-> "return", value |-> v, graph |-> g]
Raise(exc, msg, g) == [status |-> "raise", exc |-> exc, msg |-> msg, graph |-> g]

\* tf.get_variable for the kernel and bias of a layer in scope `scope`.
GetLayerVars(g, scope) ==
    IF VarsOf(scope) \subseteq g.params
    THEN IF g.reuse THEN Return(scope, g)
         ELSE Raise("ValueError", "variable already exists", g)
    ELSE IF g.reuse THEN Raise("ValueError", "variable does not exist", g)
         ELSE Return(scope, [g EXCEPT !.params = @ \cup VarsOf(scope)])

\* The result tensor of a dense layer applied to x.
DenseValue(x, units, activation, scope) ==
    [shape |-> <<x.shape[1], units>>, op |-> "dense", scope |-> scope,
     activation |-> activation, input |-> x]

\* tf.layers.dense(x, units, activation=activation, name=name)
DenseNamed(g, x, units, activation, name) ==
    LET got == GetLayerVars(g, <<name, 0>>)
    IN  IF got.status = "raise" THEN got
        ELSE Return(DenseValue(x, units, activation, <<name, 0>>), got.graph)

\* tf.layers.dense(x, units, activation=activation): no name, so the layer
\* opens a scope with the first unused default name dense, dense_1, ...
DenseDefault(g, x, units, activation) ==
    LET scope == <<"dense", g.scope_count>>
        g1 == [g EXCEPT !.scope_count = @ + 1]
        got == GetLayerVars(g1, scope)
    IN  IF got.status = "raise" THEN got
        ELSE Return(DenseValue(x, units, activation, scope), got.graph)

\* ------------------------------------------------------------ input domains
Widths == 1..MaxWidth
Batches == 1..MaxBatch
Sizes == 1..MaxSize
KeepProbs == {50, 100}
Activations == {"tanh", "relu"}

\* Lists of at most MaxTensors 2-D tensors of one batch size, the i-th
\* being the tensor <<kind, i>>, of any width.
TensorLists(kind, b) ==
    UNION {{[i \in 1..k |-> Placeholder(kind, i, b, ws[i])] :
              ws \in [1..k -> Widths]} : k \in 0..MaxTensors}

Encoder(t) == [output |-> t]

\* The encoder lists a caller can pass: None, or a (possibly empty) list of
\* encoders, all working on the same batch.
EncoderLists(b) ==
    {None} \cup {Some([i \in 1..Len(ts) |-> Encoder(ts[i])]) :
                    ts \in TensorLists("enc", b)}

OptSizes == {None} \cup {Some(n) : n \in Sizes}

\* Layer size lists of an MLP: at most MaxLayers layers, each of the
\* smallest or the largest size.
LayerSizeLists == UNION {[1..k -> {1, MaxSize}] : k \in 0..MaxLayers}

\* (activation, dropout_keep_prob) of an MLP: the defaults, and another pair.
MlpOptions == {<<"tanh", 100>>, <<"relu", 50>>}

Outputs(encoders) == [i \in 1..Len(encoders) |-> encoders[i].output]

\* ------------------------------------------------------ encoder projections
\* A call's result: the outcome and the caller's encoder list after the call.
Result(outcome, encoders) == [outcome |-> outcome, encoders |-> encoders]

\* Faulty variant: a missing size is taken to be zero.
empty_initial_state_unchecked(g, train_mode, rnn_size, encoders) ==
    Result(Return(Zeros(IF IsNone(rnn_size) THEN 0 ELSE Get(rnn_size)), g),
           encoders)

empty_initial_state(g, train_mode, rnn_size, encoders) ==
    IF IsNone(rnn_size)
    THEN Result(Raise("ValueError", "You must supply rnn_size", g), encoders)
    ELSE Result(Return(Zeros(Get(rnn_size)), g), encoders)

linear_encoder_projection(dropout_keep_prob) ==
    [dropout_keep_prob |-> dropout_keep_prob]

\* Faulty variant: the layer keeps the width of the concatenation.
func_unprojected(closure, g, train_mode, rnn_size, encoders) ==
    IF IsNone(rnn_size)
    THEN Result(Raise("ValueError", "You must supply rnn_size", g), encoders)
    ELSE IF IsNone(encoders) \/ Len(Get(encoders)) = 0
    THEN Result(Raise("ValueError", "There must be at least one encoder", g),
                encoders)
    ELSE LET encoded_concat == Concat1(Outputs(Get(encoders)))
             dropped == Dropout(encoded_concat, closure.dropout_keep_prob,
                                train_mode)
         IN  Result(DenseNamed(g, dropped, encoded_concat.shape[2], "linear",
                               "encoders_projection"),
                    encoders)

\* Faulty variant: dropout is applied whatever the training mode is.
func_always_dropout(closure, g, train_mode, rnn_size, encoders) ==
    IF IsNone(rnn_size)
    THEN Result(Raise("ValueError", "You must supply rnn_size", g), encoders)
    ELSE IF IsNone(encoders) \/ Len(Get(encoders)) = 0
    THEN Result(Raise("ValueError", "There must be at least one encoder", g),
                encoders)
    ELSE LET encoded_concat == Concat1(Outputs(Get(encoders)))
             dropped == Dropout(encoded_concat, closure.dropout_keep_prob,
                                TRUE)
         IN  Result(DenseNamed(g, dropped, Get(rnn_size), "linear",
                               "encoders_projection"),
                    encoders)

\* Faulty variant: the encoder list is validated before the size.
func_encoders_first(closure, g, train_mode, rnn_size, encoders) ==
    IF IsNone(encoders) \/ Len(Get(encoders)) = 0
    THEN Result(Raise("ValueError", "There must be at least one encoder", g),
                encoders)
    ELSE IF IsNone(rnn_size)
    THEN Result(Raise("ValueError", "You must supply rnn_size", g), encoders)
    ELSE LET encoded_concat == Concat1(Outputs(Get(encoders)))
             dropped == Dropout(encoded_concat, closure.dropout_keep_prob,
                                train_mode)
         IN  Result(DenseNamed(g, dropped, Get(rnn_size), "linear",
                               "encoders_projection"),
                    encoders)

func(closure, g, train_mode, rnn_size, encoders) ==
    IF IsNone(rnn_size)
    THEN Result(Raise("ValueError", "You must supply rnn_size", g), encoders)
    ELSE IF IsNone(encoders) \/ Len(Get(encoders)) = 0
    THEN Result(Raise("ValueError", "There must be at least one encoder", g),
                encoders)
    ELSE LET encoded_concat == Concat1(Outputs(Get(encoders)))
             dropped == Dropout(encoded_concat, closure.dropout_keep_prob,
                                train_mode)
         IN  Result(DenseNamed(g, dropped, Get(rnn_size), "linear",
                               "encoders_projection"),
                    encoders)

\* Faulty variant: the declared size is not compared with the sum.
concat_encoder_projection_unchecked(g, train_mode, rnn_size, encoders) ==
    IF IsNone(encoders) \/ Len(Get(encoders)) = 0
    THEN Result(Raise("ValueError", "There must be at least one encoder", g),
                encoders)
    ELSE Result(Return(Concat1(Outputs(Get(encoders))), g), encoders)

concat_encoder_projection(g, train_mode, rnn_size, encoders) ==
    IF IsNone(encoders) \/ Len(Get(encoders)) = 0
    THEN Result(Raise("ValueError", "There must be at least one encoder", g),
                encoders)
    ELSE IF ~IsNone(rnn_size)
            /\ Get(rnn_size) # SumWidths(Outputs(Get(encoders)))
    THEN Result(Raise("AssertionError", "", g), encoders)
    ELSE Result(Return(Concat1(Outputs(Get(encoders))), g), encoders)

\* ------------------------------------------------------- output projections
\* neuralmonkey.nn.projection.maxout(inputs, size)
maxout(g, x, size) ==
    LET got == GetLayerVars(g, <<"maxout", 0>>)
    IN  IF got.status = "raise" THEN got
        ELSE Return([shape |-> <<x.shape[1], size>>, op |-> "maxout",
                     scope |-> <<"maxout", 0>>, input |-> x], got.graph)

\* neuralmonkey.nn.projection.multilayer_projection: layer i of the stack
\* and the layers after it.
RECURSIVE multilayer_projection(_, _, _, _, _, _, _, _)
multilayer_projection(g, x, layer_sizes, i, activation, dropout_keep_prob, train_mode, scope) ==
    IF i > Len(layer_sizes) THEN Return(x, g)
    ELSE LET got == GetLayerVars(g, <<scope, i>>)
         IN  IF got.status = "raise" THEN got
             ELSE multilayer_projection(
                      got.graph,
                      Dropout(DenseValue(x, layer_sizes[i], activation,
                                         <<scope, i>>),
                              dropout_keep_prob, train_mode),
                      layer_sizes, i + 1, activation, dropout_keep_prob,
                      train_mode, scope)

\* The factories: each returns the pair (projection function, width).
legacy_linear(g, output_size) ==
    Return(<<[kind |-> "legacy_linear", output_size |-> output_size],
             output_size>>, g)

legacy_relu(g, output_size) ==
    Return(<<[kind |-> "legacy_relu", output_size |-> output_size],
             output_size>>, g)

nonlinear_output(g, output_size, activation_fn) ==
    Return(<<[kind |-> "nonlinear_output", output_size |-> output_size,
              activation_fn |-> activation_fn], output_size>>, g)

maxout_output(g, maxout_size) ==
    Return(<<[kind |-> "maxout_output", maxout_size |-> maxout_size],
             maxout_size>>, g)

\* Faulty variant: the width declared is the first layer's.
mlp_output_first_layer(g, layer_sizes, activation, dropout_keep_prob) ==
    IF Len(layer_sizes) = 0
    THEN Raise("IndexError", "list index out of range", g)
    ELSE Return(<<[kind |-> "mlp_output", layer_sizes |-> layer_sizes,
                   activation |-> activation,
                   dropout_keep_prob |-> dropout_keep_prob],
                  layer_sizes[1]>>, g)

\* Faulty variant: an empty layer_sizes is accepted, with width zero.
mlp_output_unguarded(g, layer_sizes, activation, dropout_keep_prob) ==
    Return(<<[kind |-> "mlp_output", layer_sizes |-> layer_sizes,
              activation |-> activation,
              dropout_keep_prob |-> dropout_keep_prob],
             IF Len(layer_sizes) = 0 THEN 0
             ELSE layer_sizes[Len(layer_sizes)]>>, g)

mlp_output(g, layer_sizes, activation, dropout_keep_prob) ==
    IF Len(layer_sizes) = 0
    THEN Raise("IndexError", "list index out of range", g)
    ELSE Return(<<[kind |-> "mlp_output", layer_sizes |-> layer_sizes,
                   activation |-> activation,
                   dropout_keep_prob |-> dropout_keep_prob],
                  layer_sizes[Len(layer_sizes)]>>, g)

\* The projection functions the factories return.
\* Faulty variant: the previous output is fed to the layer as well.
legacy_linear_projection_with_output(c, g, prev_state, prev_output, ctx_tensors, train_mode) ==
    LET state_with_ctx == Concat1(<<prev_state, prev_output>> \o ctx_tensors)
    IN  DenseNamed(g, state_with_ctx, c.output_size, "linear",
                   "AttnOutputProjection")

legacy_linear_projection(c, g, prev_state, prev_output, ctx_tensors, train_mode) ==
    LET state_with_ctx == Concat1(<<prev_state>> \o ctx_tensors)
    IN  DenseNamed(g, state_with_ctx, c.output_size, "linear",
                   "AttnOutputProjection")

legacy_relu_projection(c, g, prev_state, prev_output, ctx_tensors, train_mode) ==
    LET state_with_ctx == Concat1(<<prev_state>> \o ctx_tensors)
    IN  DenseNamed(g, state_with_ctx, c.output_size, "relu",
                   "AttnOutputProjection")

nonlinear_projection(c, g, prev_state, prev_output, ctx_tensors, train_mode) ==
    LET state_out_ctx == Concat1(<<prev_state, prev_output>> \o ctx_tensors)
    IN  DenseDefault(g, state_out_ctx, c.output_size, c.activation_fn)

maxout_projection(c, g, prev_state, prev_output, ctx_tensors, train_mode) ==
    LET state_out_ctx == Concat1(<<prev_state, prev_output>> \o ctx_tensors)
    IN  maxout(g, state_out_ctx, c.maxout_size)

mlp_projection(c, g, prev_state, prev_output, ctx_tensors, train_mode) ==
    LET mlp_input == Concat1(<<prev_state, prev_output>> \o ctx_tensors)
    IN  multilayer_projection(g, mlp_input, c.layer_sizes, 1,
                              c.activation, c.dropout_keep_prob,
                              train_mode, "deep_output_mlp")

\* Calling the projection function of an OutputProjectionSpec.
Apply(c, g, prev_state, prev_output, ctx_tensors, train_mode) ==
    CASE c.kind = "legacy_linear" ->
           legacy_linear_projection(c, g, prev_state, prev_output, ctx_tensors, train_mode)
      [] c.kind = "legacy_relu" ->
           legacy_relu_projection(c, g, prev_state, prev_output, ctx_tensors, train_mode)
      [] c.kind = "nonlinear_output" ->
           nonlinear_projection(c, g, prev_state, prev_output, ctx_tensors, train_mode)
      [] c.kind = "maxout_output" ->
           maxout_projection(c, g, prev_state, prev_output, ctx_tensors, train_mode)
      [] c.kind = "mlp_output" ->
           mlp_projection(c, g, prev_state, prev_output, ctx_tensors, train_mode)

\* ------------------------------------------------------------------ actions
Idle == [op |-> "none"]

\* What the caller sees of an outcome: the value returned or the exception.
Seen(o) == [f \in DOMAIN o \ {"graph"} |-> o[f]]

Init ==
    /\ role \in {"encoder_projection", "output_projection"}
    /\ graph = [params |-> {}, reuse |-> FALSE, scope_count |-> 0]
    /\ enc_func = None
    /\ out_proj = None
    /\ last = Idle

\* The enclosing variable scope is switched to reuse mode by the decoder
\* (tf.get_variable_scope().reuse_variables()).
ReuseVariables ==
    /\ last = Idle
    /\ ~graph.reuse
    /\ graph' = [graph EXCEPT !.reuse = TRUE]
    /\ UNCHANGED <<role, enc_func, out_proj, last>>

\* The caller takes the result of the call and goes on.
Resume ==
    /\ last # Idle
    /\ last' = Idle
    /\ UNCHANGED <<role, graph, enc_func, out_proj>>

EncCall(op, r, b, train_mode, rnn_size, encoders) ==
    /\ graph' = r.outcome.graph
    /\ last' = [op |-> op, batch |-> b, train_mode |-> train_mode,
                rnn_size |-> rnn_size, encoders |-> encoders,
                outcome |-> Seen(r.outcome), encoders_after |-> r.encoders]
    /\ UNCHANGED <<role, enc_func, out_proj>>

EmptyInitialState ==
    /\ role = "encoder_projection" /\ last = Idle
    /\ \E b \in Batches, train_mode \in BOOLEAN, rnn_size \in OptSizes :
         \E encoders \in EncoderLists(b) :
           EncCall("empty_initial_state",
                   empty_initial_state(graph, train_mode, rnn_size, encoders),
                   b, train_mode, rnn_size, encoders)

LinearEncoderProjection ==
    /\ role = "encoder_projection" /\ last = Idle
    /\ \E keep \in KeepProbs :
         /\ IsNone(enc_func) \/ enc_func = Some(linear_encoder_projection(keep))
         /\ enc_func' = Some(linear_encoder_projection(keep))
         /\ last' = [op |-> "linear_encoder_projection"]
         /\ UNCHANGED <<role, graph, out_proj>>

LinearFunc ==
    /\ role = "encoder_projection" /\ last = Idle
    /\ ~IsNone(enc_func)
    /\ \E b \in Batches, train_mode \in BOOLEAN, rnn_size \in OptSizes :
         \E encoders \in EncoderLists(b) :
           EncCall("func",
                   func(Get(enc_func), graph, train_mode, rnn_size, encoders),
                   b, train_mode, rnn_size, encoders)

ConcatEncoderProjection ==
    /\ role = "encoder_projection" /\ last = Idle
    /\ \E b \in Batches, train_mode \in BOOLEAN, rnn_size \in OptSizes :
         \E encoders \in EncoderLists(b) :
           EncCall("concat_encoder_projection",
                   concat_encoder_projection(graph, train_mode, rnn_size,
                                             encoders),
                   b, train_mode, rnn_size, encoders)

\* A factory call: one variable scope holds one output projection, which
\* may be constructed again with the same configuration.
Construct(op, args, o) ==
    /\ role = "output_projection" /\ last = Idle
    /\ o.status = "return" => (IsNone(out_proj) \/ out_proj = Some(o.value))
    /\ out_proj' = IF o.status = "return" THEN Some(o.value) ELSE out_proj
    /\ graph' = o.graph
    /\ last' = [op |-> op, args |-> args, outcome |-> Seen(o)]
    /\ UNCHANGED <<role, enc_func>>

LegacyLinear ==
    \E n \in Sizes : Construct("_legacy_linear", <<n>>, legacy_linear(graph, n))

LegacyRelu ==
    \E n \in Sizes : Construct("_legacy_relu", <<n>>, legacy_relu(graph, n))

NonlinearOutput ==
    \E n \in Sizes, a \in Activations :
        Construct("nonlinear_output", <<n, a>>, nonlinear_output(graph, n, a))

MaxoutOutput ==
    \E n \in Sizes : Construct("maxout_output", <<n>>, maxout_output(graph, n))

MlpOutput ==
    \E ls \in LayerSizeLists, o \in MlpOptions :
        Construct("mlp_output", <<ls, o[1], o[2]>>,
                  mlp_output(graph, ls, o[1], o[2]))

\* One decoder step: the projection function held is applied.
Projection ==
    /\ role = "output_projection" /\ last = Idle
    /\ ~IsNone(out_proj)
    /\ Get(out_proj)[1].kind = "nonlinear_output" => graph.scope_count < MaxScopes
    /\ \E b \in Batches, train_mode \in BOOLEAN, ws \in Widths, wo \in Widths :
         \E ctx_tensors \in TensorLists("ctx", b) :
           LET prev_state == Placeholder("prev_state", 0, b, ws)
               prev_output == Placeholder("prev_output", 0, b, wo)
               r == Apply(Get(out_proj)[1], graph, prev_state, prev_output,
                          ctx_tensors, train_mode)
           IN  /\ graph' = r.graph
               /\ last' = [op |-> "_projection", batch |-> b,
                           train_mode |-> train_mode,
                           prev_state |-> prev_state,
                           prev_output |-> prev_output,
                           ctx_tensors |-> ctx_tensors,
                           outcome |-> Seen(r)]
               /\ UNCHANGED <<role, enc_func, out_proj>>

Next ==
    \/ ReuseVariables
    \/ Resume
    \/ EmptyInitialState
    \/ LinearEncoderProjection
    \/ LinearFunc
    \/ ConcatEncoderProjection
    \/ LegacyLinear
    \/ LegacyRelu
    \/ NonlinearOutput
    \/ MaxoutOutput
    \/ MlpOutput
    \/ Projection

Spec == Init /\ [][Next]_vars

\* ------------------------------------------------------------------ claims
EncOps == {"empty_initial_state", "func", "concat_encoder_projection"}

Returned == last.outcome.status = "return"
Raised == last.outcome.status = "raise"

NoEncoders(encoders) == IsNone(encoders) \/ Len(Get(encoders)) = 0

\* The sum of the feature widths of the first n tensors of ts.
RECURSIVE WidthOfFirst(_, _)
WidthOfFirst(ts, n) ==
    IF n = 0 THEN 0 ELSE WidthOfFirst(ts, n - 1) + ts[n].shape[2]

\* cols holds the columns of the tensors of ts, one tensor after the other
\* in list order, and nothing else.
LaidOut(cols, ts) ==
    /\ Len(cols) = WidthOfFirst(ts, Len(ts))
    /\ \A i \in 1..Len(ts) : \A j \in 1..ts[i].shape[2] :
          cols[WidthOfFirst(ts, i - 1) + j] = ts[i].cols[j]

\* The concatenated tensor a result was computed from.
RECURSIVE Feed(_)
Feed(v) == IF "cols" \in DOMAIN v THEN v ELSE Feed(v.input)

\* The dropout nodes on the way from a result down to its inputs.
RECURSIVE Dropouts(_)
Dropouts(v) ==
    IF "cols" \in DOMAIN v THEN {}
    ELSE (IF v.op = "dropout" THEN {v} ELSE {}) \cup Dropouts(v.input)

\* C1: empty_initial_state returns, for a size n, a vector of length n whose
\* elements are all zero, and raises ValueError when the size is None,
\* whatever the encoder list and the training-mode flag are.
C1_ZeroInitialization ==
    last.op = "empty_initial_state" =>
        IF IsNone(last.rnn_size)
        THEN Raised /\ last.outcome.exc = "ValueError"
        ELSE /\ Returned
             /\ last.outcome.value.shape = <<Get(last.rnn_size)>>
             /\ Len(last.outcome.value.elems) = Get(last.rnn_size)
             /\ \A j \in 1..Get(last.rnn_size) : last.outcome.value.elems[j] = 0

C1_Witness ==
    /\ last.op = "empty_initial_state"
    /\ last.rnn_size = Some(MaxSize)
    /\ ~NoEncoders(last.encoders)
    /\ last.train_mode
    /\ Returned

\* C2: the linear encoder projection raises ValueError when the size is None
\* or the encoder list is None or empty; otherwise the tensor it returns has
\* feature width rnn_size, whatever the encoders' widths and the keep
\* probability are, and the only other failure is the variable store's.
C2_LinearProjection ==
    last.op = "func" =>
        IF IsNone(last.rnn_size) \/ NoEncoders(last.encoders)
        THEN Raised /\ last.outcome.exc = "ValueError"
        ELSE IF Returned
        THEN last.outcome.value.shape = <<last.batch, Get(last.rnn_size)>>
        ELSE last.outcome.msg \in {"variable already exists",
                                   "variable does not exist"}

C2_Witness ==
    /\ last.op = "func"
    /\ Returned
    /\ Len(Get(last.encoders)) = 2
    /\ last.outcome.value.shape[2] = 1
    /\ last.outcome.value.input.shape[2] = 2 * MaxWidth

C4_Original ==
    (last.op \in EncOps /\ Returned) => Len(last.outcome.value.shape) = 2

\* C4 as amended: the linear projection and the concatenation return a 2-D
\* (batch x feature) tensor; the zero-initialization returns a 1-D vector of
\* length rnn_size, with no batch axis.
C4_Amended ==
    (last.op \in EncOps /\ Returned) =>
        IF last.op = "empty_initial_state"
        THEN last.outcome.value.shape = <<Get(last.rnn_size)>>
        ELSE /\ Len(last.outcome.value.shape) = 2
             /\ last.outcome.value.shape[1] = last.batch

C4_Witness ==
    /\ last.op = "func"
    /\ Returned
    /\ last.batch = MaxBatch
    /\ Len(Get(last.encoders)) = 2

\* The width an output projection is configured with.
Configured(c) ==
    CASE c.kind \in {"legacy_linear", "legacy_relu", "nonlinear_output"} ->
           c.output_size
      [] c.kind = "maxout_output" -> c.maxout_size
      [] c.kind = "mlp_output" -> c.layer_sizes[Len(c.layer_sizes)]

\* C5: the width a factory returns is the configured output_size,
\* maxout_size or last entry of layer_sizes, and it is the feature width of
\* every tensor the projection function returns, for every batch size, every
\* number of context tensors and all widths of the inputs.
C5_DeclaredWidth ==
    ~IsNone(out_proj) =>
        /\ Get(out_proj)[2] = Configured(Get(out_proj)[1])
        /\ (last.op = "_projection" /\ Returned) =>
              last.outcome.value.shape = <<last.batch, Get(out_proj)[2]>>

C5_Witness ==
    /\ last.op = "_projection"
    /\ Returned
    /\ Get(out_proj)[1].kind = "mlp_output"
    /\ Get(out_proj)[1].layer_sizes = <<MaxSize, 1>>
    /\ Len(last.ctx_tensors) = 0
    /\ last.batch = MaxBatch

\* C6 as stated: once the first invocation has allocated the parameters of
\* the projection function of a scope, no later step changes the set of
\* trainable parameters.
C6_Idempotence ==
    [][graph.params # {} => graph'.params = graph.params]_vars

\* C7: mlp_output with an empty layer_sizes raises at construction: no
\* projection function is returned and the variable store is untouched; with
\* at least one layer size it returns, allocating nothing, and the declared
\* width is the last layer's size.
C7_MlpConstruction ==
    [][last'.op = "mlp_output" =>
         /\ graph' = graph
         /\ IF Len(last'.args[1]) = 0
            THEN /\ last'.outcome.status = "raise"
                 /\ out_proj' = out_proj
            ELSE /\ last'.outcome.status = "return"
                 /\ out_proj' = Some(last'.outcome.value)
                 /\ last'.outcome.value[2] = last'.args[1][Len(last'.args[1])]
      ]_vars

C7_Witness ==
    /\ last.op = "mlp_output"
    /\ Len(last.args[1]) = 0
    /\ Raised
    /\ IsNone(out_proj)

\* C8: the legacy projections feed their layer [prev_state] + ctx_tensors,
\* with no column of prev_output; the nonlinear, maxout and MLP projections
\* feed [prev_state, prev_output] + ctx_tensors; the contexts keep their
\* list order.
C8_InputComposition ==
    (last.op = "_projection" /\ Returned) =>
        LET fed == Feed(last.outcome.value)
            legacy == Get(out_proj)[1].kind \in {"legacy_linear", "legacy_relu"}
            ts == IF legacy
                  THEN <<last.prev_state>> \o last.ctx_tensors
                  ELSE <<last.prev_state, last.prev_output>> \o last.ctx_tensors
        IN  /\ LaidOut(fed.cols, ts)
            /\ fed.shape = <<last.batch, WidthOfFirst(ts, Len(ts))>>
            /\ legacy => \A k \in 1..Len(fed.cols) : fed.cols[k][1] # "prev_output"

C8_Witness ==
    /\ last.op = "_projection"
    /\ Returned
    /\ Get(out_proj)[1].kind = "legacy_relu"
    /\ Len(last.ctx_tensors) = 2
    /\ last.ctx_tensors[1].shape[2] # last.ctx_tensors[2].shape[2]
    /\ last.prev_output.shape[2] # last.prev_state.shape[2]

\* C9: a call of the zero-initialization, the concatenation, or a legacy,
\* nonlinear or maxout projection has the outcome, and leaves the variable
\* store, that the same call with the other training-mode flag would; the
\* linear encoder projection and the MLP projection gate every dropout they
\* apply (one before the layer, one after each MLP layer) by the flag.
C9_TrainingMode ==
    [][/\ last'.op = "empty_initial_state" =>
            LET r == empty_initial_state(graph, ~last'.train_mode,
                                         last'.rnn_size, last'.encoders)
            IN  Seen(r.outcome) = last'.outcome /\ r.outcome.graph = graph'
       /\ last'.op = "concat_encoder_projection" =>
            LET r == concat_encoder_projection(graph, ~last'.train_mode,
                                               last'.rnn_size, last'.encoders)
            IN  Seen(r.outcome) = last'.outcome /\ r.outcome.graph = graph'
       /\ (last'.op = "_projection" /\ Get(out_proj)[1].kind # "mlp_output") =>
            LET r == Apply(Get(out_proj)[1], graph, last'.prev_state,
                           last'.prev_output, last'.ctx_tensors,
                           ~last'.train_mode)
            IN  Seen(r) = last'.outcome /\ r.graph = graph'
       /\ (last'.op = "func" /\ last'.outcome.status = "return") =>
            /\ Cardinality(Dropouts(last'.outcome.value)) = 1
            /\ \A d \in Dropouts(last'.outcome.value) : d.gate = last'.train_mode
       /\ (last'.op = "_projection" /\ Get(out_proj)[1].kind = "mlp_output"
             /\ last'.outcome.status = "return") =>
            /\ Cardinality(Dropouts(last'.outcome.value))
                 = Len(Get(out_proj)[1].layer_sizes)
            /\ \A d \in Dropouts(last'.outcome.value) : d.gate = last'.train_mode
      ]_vars

C9_Witness ==
    /\ last.op = "_projection"
    /\ Returned
    /\ Get(out_proj)[1].kind = "mlp_output"
    /\ Len(Get(out_proj)[1].layer_sizes) = 2
    /\ last.train_mode

\* C10: an encoder projection call that raises leaves the variable store
\* and the caller's encoder list as they were; the linear projection
\* reports the missing size when the size is None and the encoder list is
\* None or empty as well.
C10_ValidationFirst ==
    [][(last'.op \in EncOps /\ last'.outcome.status = "raise") =>
         /\ graph' = graph
         /\ last'.encoders_after = last'.encoders
         /\ (last'.op = "func" /\ IsNone(last'.rnn_size)) =>
               last'.outcome.msg = "You must supply rnn_size"
      ]_vars

C10_Witness ==
    /\ last.op = "func"
    /\ Raised
    /\ IsNone(last.rnn_size)
    /\ last.encoders = Some(<<>>)
    /\ graph.params # {}

====
